---- MODULE Spec2Model ----
(***************************************************************************)
(* exatomic: evaluation of molecular orbitals, densities and orbital       *)
(* angular momentum on a numerical grid, the attachment of the resulting   *)
(* fields to the universe, and the generator of cartesian GTF exponents.   *)
(*                                                                         *)
(* The universe is the state; every public function is one action, which   *)
(* records the call it served (arguments, the steps it performed, what it  *)
(* printed, what it returned or raised) in the variable call.              *)
(***************************************************************************)
EXTENDS Integers, Sequences, FiniteSets, TLC

VARIABLES
    orbital,              \* uni.orbital: column name -> value per orbital
    _field,               \* uni._field: None or the attached AtomicField
    _traits_need_update,  \* uni._traits_need_update
    call,                 \* the last call served
    atom                  \* universe.atom: frame -> label -> (x, y, z)

vars == <<orbital, _field, _traits_need_update, call, atom>>

\* ------------------------------------------------------------------ bounds
\* number of frames of a trajectory
NumFrames == 2

\* largest angular momentum passed to cartesian_gtf_exponents
MaxL == 4
\* largest number of value arrays the universe's field may hold
MaxFieldValues == 2

\* Python's None, where a string, a vector of orbital indices, a frame index,
\* a row of field parameters or a field is expected
None == "None"
NoVector == <<>>
NoFrame == -1
NoFieldParams == [ox |-> 0, oy |-> 0, oz |-> 0, nx |-> 0, dx |-> 0, frame |-> 0]
NoField == [field_values |-> <<>>, rows |-> <<>>]

\* ----------------------------------------------- algorithms/basis.py
\* a row of np.empty((n, 3)) that was never assigned
Unfilled == <<-1, -1, -1>>

\* the row is written as [k, j, i]
gtf_body_transposed(l, i, j, k, st) ==
    IF i + j + k # l THEN st
    ELSE IF st.h < Len(st.values)
    THEN [st EXCEPT !.values[st.h + 1] = <<k, j, i>>, !.h = st.h + 1]
    ELSE [st EXCEPT !.err = "IndexError"]

\* values[h] = [i, j, k]; h += 1, guarded by i + j + k == l.  st holds the
\* rows, h and the error of a write outside the n rows, which ends the loops.
gtf_body(l, i, j, k, st) ==
    IF i + j + k # l THEN st
    ELSE IF st.h < Len(st.values)
    THEN [st EXCEPT !.values[st.h + 1] = <<i, j, k>>, !.h = st.h + 1]
    ELSE [st EXCEPT !.err = "IndexError"]

\* for k in range(m)
RECURSIVE gtf_loop_k(_, _, _, _, _, _)
gtf_loop_k(l, m, i, j, k, st) ==
    IF k = m \/ st.err # None THEN st ELSE gtf_loop_k(l, m, i, j, k + 1, gtf_body(l, i, j, k, st))

\* for j in range(m)
RECURSIVE gtf_loop_j(_, _, _, _, _)
gtf_loop_j(l, m, i, j, st) ==
    IF j = m \/ st.err # None THEN st ELSE gtf_loop_j(l, m, i, j + 1, gtf_loop_k(l, m, i, j, 0, st))

\* for i in range(m)
RECURSIVE gtf_loop_i(_, _, _, _)
gtf_loop_i(l, m, i, st) ==
    IF i = m \/ st.err # None THEN st ELSE gtf_loop_i(l, m, i + 1, gtf_loop_j(l, m, i, 0, st))

\* the loops run over range(l) instead of range(l + 1)
cartesian_gtf_exponents_short(l) ==
    LET m == l + 1
        n == ((m + 1) * m) \div 2
    IN  gtf_loop_i(l, l, 0, [values |-> [r \in 1..n |-> Unfilled], h |-> 0, err |-> None])

cartesian_gtf_exponents(l) ==
    LET m == l + 1
        n == ((m + 1) * m) \div 2
    IN  gtf_loop_i(l, m, 0, [values |-> [r \in 1..n |-> Unfilled], h |-> 0, err |-> None])

\* ------------------------------------------------- the universe's tables
\* the orbital indices and the frame index of the universe
Orbs == {1, 2}
Frames == {0}

\* uni.current_momatrix.square(column=col): basis function -> orbital -> coefficient
current_momatrix_square(col) ==
    CASE col = "coef"  -> <<<<1, 1>>, <<1, -1>>>>
      [] col = "lreal" -> <<<<1, 0>>, <<0, 1>>>>
      [] col = "limag" -> <<<<0, 1>>, <<1, 1>>>>

\* the columns of uni.current_momatrix and of uni.orbital
TableColumns(df) ==
    IF df = "current_momatrix" THEN {"coef", "lreal", "limag"}
    ELSE {"occupation", "lreal"}

\* the occupation column an orbital table may hold
OccupationColumns == {<<0, 0>>, <<2, 0>>, <<2, 1>>}

\* ------------------------------------- algorithms/orbital_util.py helpers
RECURSIVE SumSeq(_)
SumSeq(s) == IF s = <<>> THEN 0 ELSE Head(s) + SumSeq(Tail(s))

\* _check_column: None is the table's default column; a name the table does
\* not hold raises
_check_column(df, key) ==
    LET k == IF key # None THEN key
             ELSE IF df = "current_momatrix" THEN "coef" ELSE "occupation"
    IN  IF k \in TableColumns(df) THEN [error |-> None, key |-> k]
        ELSE [error |-> "Exception", key |-> k]

\* _determine_vector: an explicit vector is kept; the default window
\* (HOMO-5, LUMO+7) covers every orbital of this universe
_determine_vector(vector) == IF vector = NoVector THEN <<1, 2>> ELSE vector

\* the grid derived from the atom table when field_params is omitted
DefaultFieldParams == [ox |-> 0, oy |-> 0, oz |-> 1, nx |-> 2, dx |-> 1, frame |-> 0]

\* _determine_fps: one row of field parameters per orbital to evaluate
_determine_fps(fps, nvec) ==
    LET row == IF fps = NoFieldParams THEN DefaultFieldParams ELSE fps
    IN  [i \in 1..nvec |-> row]

\* numerical_grid_from_field_params: the coordinates of every grid point
numerical_grid_from_field_params(fps) ==
    LET row == fps[1]
    IN  [p \in 1..row.nx |-> <<row.ox + (p - 1) * row.dx, row.oy, row.oz>>]

\* the volume element of the grid of a row of field parameters
VolumeElement(row) == row.dx

\* uni.basis_functions.evaluate: basis function 1 is the constant 1 and basis
\* function 2 the monomial x
basis_functions_evaluate(xyz) ==
    [p \in 1..Len(xyz) |-> <<1, xyz[p][1]>>]

\* uni.basis_functions.evaluate_diff: the derivative along cart
basis_functions_evaluate_diff(xyz, cart) ==
    [p \in 1..Len(xyz) |-> <<0, IF cart = "x" THEN 1 ELSE 0>>]

\* the value of orbital o at the point whose basis values are row
OrbitalAt(row, cmat, o) == SumSeq([b \in 1..Len(row) |-> row[b] * cmat[b][o]])

\* _compute_orbitals, the compiled path: fault is the error its
\* preconditions raise on this input ("ok" when they are met)
_compute_orbitals(npts, bvs, vector, cmat, fault) ==
    IF fault # "ok" THEN [error |-> fault, ovs |-> <<>>]
    ELSE [error |-> None,
          ovs |-> [i \in 1..Len(vector) |->
                      [p \in 1..npts |-> OrbitalAt(bvs[p], cmat, vector[i])]]]

\* _compute_orbitals_nojit, the dense numpy path
_compute_orbitals_nojit(npts, bvs, vector, cmat, fault) ==
    IF fault # "ok" THEN [error |-> fault, ovs |-> <<>>]
    ELSE [error |-> None,
          ovs |-> [i \in 1..Len(vector) |->
                      [p \in 1..npts |-> SumSeq([b \in 1..Len(bvs[p]) |->
                                            bvs[p][b] * cmat[b][vector[i]]])]]]

\* _compute_density: the occupation-weighted sum of the squared orbitals
_compute_density(npts, ovs, orbocc) ==
    [p \in 1..npts |-> SumSeq([i \in 1..Len(ovs) |-> orbocc[i] * ovs[i][p] * ovs[i][p]])]

\* _compute_current_density: occupation-weighted Im(psi* grad psi) per axis
_compute_current_density(bvs, grx, gry, grz, rcoefs, icoefs, occvec) ==
    LET cur(gr) ==
            [p \in 1..Len(bvs) |->
                SumSeq([o \in 1..Len(occvec) |->
                    occvec[o] * (OrbitalAt(bvs[p], rcoefs, o) * OrbitalAt(gr[p], icoefs, o)
                               - OrbitalAt(bvs[p], icoefs, o) * OrbitalAt(gr[p], rcoefs, o))])]
    IN  <<cur(grx), cur(gry), cur(grz)>>

\* _compute_orb_ang_mom: r x j at every grid point (maxes is the identity)
_compute_orb_ang_mom(xyz, curx, cury, curz) ==
    [p \in 1..Len(xyz) |->
        <<xyz[p][2] * curz[p] - xyz[p][3] * cury[p],
          xyz[p][3] * curx[p] - xyz[p][1] * curz[p],
          xyz[p][1] * cury[p] - xyz[p][2] * curx[p]>>]

\* _make_field: the value arrays with one row of grid metadata each
_make_field(field_values, fps) ==
    [field_values |-> field_values, rows |-> [i \in 1..Len(field_values) |-> fps[i]]]

\* ------------------------------------------------------------ universe.py
\* field['frame'] = frame: the column is set on every row of the field
set_frame(field, frame) ==
    [field EXCEPT !.rows = [i \in 1..Len(field.rows) |-> [field.rows[i] EXCEPT !.frame = frame]]]

\* the new field's values and rows put first
concat_field_reversed(attached, df) ==
    [field_values |-> df.field_values \o attached.field_values,
     rows |-> df.rows \o attached.rows]

\* the else branch of append_field: both value lists, the attached one first,
\* and both tables of rows concatenated under a fresh index
concat_field(attached, df) ==
    [field_values |-> attached.field_values \o df.field_values,
     rows |-> attached.rows \o df.rows]

\* the flag is set inside the else branch only
append_field_unflagged(uni, field, frame) ==
    IF frame # NoFrame /\ frame \notin Frames
    THEN [uni |-> uni, error |-> "IndexError", field |-> field]
    ELSE LET df == IF frame # NoFrame THEN set_frame(field, frame) ELSE field
         IN  [uni |-> IF uni._field = NoField
                      THEN [uni EXCEPT !._field = df]
                      ELSE [_field |-> concat_field(uni._field, df),
                            _traits_need_update |-> TRUE],
              error |-> None,
              field |-> df]

\* the frame column is set before the frame is looked up
append_field_tagged(uni, field, frame) ==
    LET df == IF frame # NoFrame THEN set_frame(field, frame) ELSE field
    IN  IF frame # NoFrame /\ frame \notin Frames
        THEN [uni |-> uni, error |-> "IndexError", field |-> df]
        ELSE [uni |-> [_field |-> IF uni._field = NoField THEN df
                                  ELSE concat_field(uni._field, df),
                       _traits_need_update |-> TRUE],
              error |-> None,
              field |-> df]

\* Universe.append_field; uni is the universe before the call, and the result
\* holds the universe after it, the error raised and the field as the caller
\* sees it afterwards
append_field(uni, field, frame) ==
    IF frame # NoFrame /\ frame \notin Frames
    THEN [uni |-> uni, error |-> "IndexError", field |-> field]
    ELSE LET df == IF frame # NoFrame THEN set_frame(field, frame) ELSE field
         IN  [uni |-> [_field |-> IF uni._field = NoField THEN df
                                  ELSE concat_field(uni._field, df),
                       _traits_need_update |-> TRUE],
              error |-> None,
              field |-> df]

\* Universe.add_field, the attachment _teardown_orbital calls: append_field
\* without a frame
add_field(uni, field) == append_field(uni, field, NoFrame)

\* ------------------------------------------------- algorithms/orbital.py
Recoverable == {"ValueError", "IndexError", "AssertionError"}

\* what the functions print
MsgEvaluating == "Evaluating {} basis functions once."
MsgFallback == "Falling back to numpy orbital evaluation."
MsgTimingOrbitals == "Timing: compute orbitals - {:>8.2f}s."
MsgTimingDensity == "Timing: compute density  - {:>8.2f}s."
MsgMaxes == "If magnetic axes are not an identity matrix, specify maxes."
MsgTimingGrid == "Timing: grid evaluation  - {:>8.2f}s."
MsgTimingCurrent == "Timing: current density  - {:>8.2f}s."
MsgShapeR == "rcoefs.shape, rcoefs.dtype"
MsgShapeI == "icoefs.shape, icoefs.dtype"

\* the empty result of a step that raised
NoSetup ==
    [vector |-> <<>>, fps |-> <<>>, xyz |-> <<>>, bvs |-> <<>>,
     icoefs |-> <<>>, jcoefs |-> <<>>]

\* _setup_orbital (irrep is None): steps are the computations performed, in
\* order, and out is what was printed
_setup_orbital(verbose, vector, fps, icoefs, jcoefs) ==
    LET out == IF verbose THEN <<MsgEvaluating>> ELSE <<>>
        vec == _determine_vector(vector)
        rows == _determine_fps(fps, Len(vec))
        xyz == numerical_grid_from_field_params(rows)
        bvs == basis_functions_evaluate(xyz)
        steps == <<"_determine_vector", "_determine_fps",
                   "numerical_grid_from_field_params", "basis_functions.evaluate",
                   "_check_column">>
        icol == _check_column("current_momatrix", icoefs)
        jcol == _check_column("current_momatrix", jcoefs)
        done == [vector |-> vec, fps |-> rows, xyz |-> xyz, bvs |-> bvs,
                 icoefs |-> current_momatrix_square(icol.key), jcoefs |-> <<>>]
    IN  IF icol.error # None
        THEN [NoSetup EXCEPT !.vector = vec] @@ [error |-> icol.error, out |-> out, steps |-> steps]
        ELSE IF jcoefs = None
        THEN done @@ [error |-> None, out |-> out,
                      steps |-> steps \o <<"current_momatrix.square">>]
        ELSE IF jcol.error # None
        THEN NoSetup @@ [error |-> jcol.error, out |-> out,
                         steps |-> steps \o <<"current_momatrix.square", "_check_column">>]
        ELSE [done EXCEPT !.jcoefs = current_momatrix_square(jcol.key)]
             @@ [error |-> None, out |-> out,
                 steps |-> steps \o <<"current_momatrix.square", "_check_column",
                                      "current_momatrix.square">>]

\* replace is ignored: the previous field is never deleted
_teardown_orbital_keep(uni, verbose, field, inplace, replace, dens) ==
    LET out == IF verbose
               THEN <<IF dens THEN MsgTimingDensity ELSE MsgTimingOrbitals>>
               ELSE <<>>
    IN  IF ~inplace
        THEN [uni |-> uni, ret |-> field, out |-> out, steps |-> <<>>]
        ELSE [uni |-> add_field(uni, field).uni, ret |-> NoField, out |-> out,
              steps |-> <<"add_field">>]

\* the previous field is deleted before inplace is looked at
_teardown_orbital_early(uni, verbose, field, inplace, replace, dens) ==
    LET out == IF verbose
               THEN <<IF dens THEN MsgTimingDensity ELSE MsgTimingOrbitals>>
               ELSE <<>>
        kept == IF replace THEN [uni EXCEPT !._field = NoField] ELSE uni
    IN  IF ~inplace
        THEN [uni |-> kept, ret |-> field, out |-> out, steps |-> <<>>]
        ELSE [uni |-> add_field(kept, field).uni, ret |-> NoField, out |-> out,
              steps |-> <<"add_field">>]

\* _teardown_orbital: the universe afterwards, the value returned, what was
\* printed and the attachment performed.  hasattr(uni, '_field') holds of
\* every universe __init__ built, and del uni.__dict__['_field'] leaves the
\* universe with no field attached
_teardown_orbital(uni, verbose, field, inplace, replace, dens) ==
    LET out == IF verbose
               THEN <<IF dens THEN MsgTimingDensity ELSE MsgTimingOrbitals>>
               ELSE <<>>
        kept == IF replace THEN [uni EXCEPT !._field = NoField] ELSE uni
    IN  IF ~inplace
        THEN [uni |-> uni, ret |-> field, out |-> out, steps |-> <<>>]
        ELSE [uni |-> add_field(kept, field).uni, ret |-> NoField, out |-> out,
              steps |-> <<"add_field">>]

\* the except clause names ValueError and IndexError only
try_compute_orbitals_narrow(npts, bvs, vector, cmat, env, announce) ==
    LET fast == _compute_orbitals(npts, bvs, vector, cmat, env.fast)
        slow == _compute_orbitals_nojit(npts, bvs, vector, cmat, env.slow)
    IN  IF fast.error = None
        THEN [error |-> None, ovs |-> fast.ovs, out |-> <<>>,
              steps |-> <<"_compute_orbitals">>]
        ELSE IF fast.error \in {"ValueError", "IndexError"}
        THEN [error |-> slow.error, ovs |-> slow.ovs,
              out |-> IF announce THEN <<MsgFallback>> ELSE <<>>,
              steps |-> <<"_compute_orbitals", "_compute_orbitals_nojit">>]
        ELSE [error |-> fast.error, ovs |-> <<>>, out |-> <<>>,
              steps |-> <<"_compute_orbitals">>]

\* a failing fallback re-raises the error of the compiled path
try_compute_orbitals_reraise(npts, bvs, vector, cmat, env, announce) ==
    LET fast == _compute_orbitals(npts, bvs, vector, cmat, env.fast)
        slow == _compute_orbitals_nojit(npts, bvs, vector, cmat, env.slow)
    IN  IF fast.error = None
        THEN [error |-> None, ovs |-> fast.ovs, out |-> <<>>,
              steps |-> <<"_compute_orbitals">>]
        ELSE IF fast.error \in Recoverable
        THEN [error |-> IF slow.error = None THEN None ELSE fast.error, ovs |-> slow.ovs,
              out |-> IF announce THEN <<MsgFallback>> ELSE <<>>,
              steps |-> <<"_compute_orbitals", "_compute_orbitals_nojit">>]
        ELSE [error |-> fast.error, ovs |-> <<>>, out |-> <<>>,
              steps |-> <<"_compute_orbitals">>]

\* the except clause names no class: every error of the compiled path starts
\* the numpy path
try_compute_orbitals_broad(npts, bvs, vector, cmat, env, announce) ==
    LET fast == _compute_orbitals(npts, bvs, vector, cmat, env.fast)
        slow == _compute_orbitals_nojit(npts, bvs, vector, cmat, env.slow)
    IN  IF fast.error = None
        THEN [error |-> None, ovs |-> fast.ovs, out |-> <<>>,
              steps |-> <<"_compute_orbitals">>]
        ELSE [error |-> slow.error, ovs |-> slow.ovs,
              out |-> IF announce THEN <<MsgFallback>> ELSE <<>>,
              steps |-> <<"_compute_orbitals", "_compute_orbitals_nojit">>]

\* try: _compute_orbitals / except (ValueError, IndexError, AssertionError):
\* _compute_orbitals_nojit.  env.fast and env.slow are what the two paths do
\* on this input; announce is whether the fallback notice is printed
try_compute_orbitals(npts, bvs, vector, cmat, env, announce) ==
    LET fast == _compute_orbitals(npts, bvs, vector, cmat, env.fast)
        slow == _compute_orbitals_nojit(npts, bvs, vector, cmat, env.slow)
    IN  IF fast.error = None
        THEN [error |-> None, ovs |-> fast.ovs, out |-> <<>>,
              steps |-> <<"_compute_orbitals">>]
        ELSE IF fast.error \in Recoverable
        THEN [error |-> slow.error, ovs |-> slow.ovs,
              out |-> IF announce THEN <<MsgFallback>> ELSE <<>>,
              steps |-> <<"_compute_orbitals", "_compute_orbitals_nojit">>]
        ELSE [error |-> fast.error, ovs |-> <<>>, out |-> <<>>,
              steps |-> <<"_compute_orbitals">>]

\* how a call ends
Raise(uni, error, steps, out) ==
    [uni |-> uni, status |-> "raised", error |-> error, ret |-> NoField,
     field |-> NoField, steps |-> steps, out |-> out]

Return(uni, ret, field, steps, out) ==
    [uni |-> uni, status |-> "returned", error |-> None, ret |-> ret,
     field |-> field, steps |-> steps, out |-> out]

\* the attached field is deleted before the evaluation starts
add_molecular_orbitals_eager(uni, a, env) ==
    LET cleared == IF a.inplace /\ a.replace THEN [uni EXCEPT !._field = NoField] ELSE uni
        s == _setup_orbital(a.verbose, a.vector, a.field_params, a.mocoefs, None)
        c == try_compute_orbitals(Len(s.xyz), s.bvs, s.vector, s.icoefs, env, a.verbose)
        field == _make_field(c.ovs, s.fps)
        t == _teardown_orbital(cleared, a.verbose, field, a.inplace, a.replace, FALSE)
    IN  IF s.error # None THEN Raise(cleared, s.error, s.steps, s.out)
        ELSE IF c.error # None
        THEN Raise(cleared, c.error, s.steps \o c.steps, s.out \o c.out)
        ELSE Return(t.uni, t.ret, field,
                    s.steps \o c.steps \o <<"_make_field">> \o t.steps,
                    s.out \o c.out \o t.out)

add_molecular_orbitals(uni, a, env) ==
    LET s == _setup_orbital(a.verbose, a.vector, a.field_params, a.mocoefs, None)
        c == try_compute_orbitals(Len(s.xyz), s.bvs, s.vector, s.icoefs, env, a.verbose)
        field == _make_field(c.ovs, s.fps)
        t == _teardown_orbital(uni, a.verbose, field, a.inplace, a.replace, FALSE)
    IN  IF s.error # None THEN Raise(uni, s.error, s.steps, s.out)
        ELSE IF c.error # None
        THEN Raise(uni, c.error, s.steps \o c.steps, s.out \o c.out)
        ELSE Return(t.uni, t.ret, field,
                    s.steps \o c.steps \o <<"_make_field">> \o t.steps,
                    s.out \o c.out \o t.out)

\* the orbitals whose occupation is not close to zero, in index order
nonzero_orbitals(occ) == SelectSeq(<<1, 2>>, LAMBDA o : occ[o] # 0)

\* the orbital values are packaged without the reduction to a density
density_field_unreduced(npts, ovs, orbocc, fps) == _make_field(ovs, fps)

\* field = _make_field(_compute_density(ovs, orbocc), fps.loc[0])
density_field(npts, ovs, orbocc, fps) ==
    _make_field(<<_compute_density(npts, ovs, orbocc)>>, <<fps[1]>>)

add_density(uni, orb, a, env) ==
    LET mocol == a.mocoefs
        s == _setup_orbital(a.verbose, NoVector, a.field_params, a.mocoefs, None)
        occarg == IF a.orbocc = None /\ mocol # "coef" THEN mocol ELSE a.orbocc
        ocol == _check_column("orbital", occarg)
        vector == nonzero_orbitals(orb[ocol.key])
        orbocc == [i \in 1..Len(vector) |-> orb[ocol.key][vector[i]]]
        npts == Len(s.xyz)
        c == try_compute_orbitals(npts, s.bvs, vector, s.icoefs, env, TRUE)
        field == density_field(npts, c.ovs, orbocc, s.fps)
        t == _teardown_orbital(uni, a.verbose, field, a.inplace, FALSE, FALSE)
    IN  IF s.error # None THEN Raise(uni, s.error, s.steps, s.out)
        ELSE IF ocol.error # None
        THEN Raise(uni, ocol.error, s.steps \o <<"_check_column">>, s.out)
        ELSE IF c.error # None
        THEN Raise(uni, c.error, s.steps \o <<"_check_column">> \o c.steps, s.out \o c.out)
        ELSE Return(t.uni, t.ret, field,
                    s.steps \o <<"_check_column">> \o c.steps
                        \o <<"_compute_density", "_make_field">> \o t.steps,
                    s.out \o c.out \o t.out)

\* add_orb_ang_mom once rcoefs and icoefs are known to be given
orb_ang_mom_body(uni, orb, a) ==
    LET rcol == a.rcoefs
        s == _setup_orbital(a.verbose, NoVector, a.field_params, a.rcoefs, a.icoefs)
        orbocc == IF a.orbocc = None THEN rcol ELSE a.orbocc
        out1 == IF a.maxes = None /\ a.verbose THEN <<MsgMaxes>> ELSE <<>>
        occvec == orb[orbocc]
        grx == basis_functions_evaluate_diff(s.xyz, "x")
        gry == basis_functions_evaluate_diff(s.xyz, "y")
        grz == basis_functions_evaluate_diff(s.xyz, "z")
        out2 == (IF a.verbose THEN <<MsgTimingGrid>> ELSE <<>>) \o <<MsgShapeR, MsgShapeI>>
        cur == _compute_current_density(s.bvs, grx, gry, grz, s.icoefs, s.jcoefs, occvec)
        out3 == IF a.verbose THEN <<MsgTimingCurrent>> ELSE <<>>
        field == _make_field(<<_compute_orb_ang_mom(s.xyz, cur[1], cur[2], cur[3])>>, s.fps)
        t == _teardown_orbital(uni, FALSE, field, a.inplace, FALSE, FALSE)
    IN  IF s.error # None THEN Raise(uni, s.error, s.steps, s.out)
        ELSE IF orbocc \notin DOMAIN orb
        THEN Raise(uni, "KeyError", s.steps, s.out \o out1)
        ELSE Return(t.uni, t.ret, field,
                    s.steps \o <<"basis_functions.evaluate_diff", "basis_functions.evaluate_diff",
                                 "basis_functions.evaluate_diff", "_compute_current_density",
                                 "_compute_orb_ang_mom", "_make_field">> \o t.steps,
                    s.out \o out1 \o out2 \o out3 \o t.out)

\* rcoefs and icoefs are only looked at after the setup
add_orb_ang_mom_late(uni, orb, a) ==
    LET s == _setup_orbital(a.verbose, NoVector, a.field_params, a.rcoefs, a.icoefs)
    IN  IF a.rcoefs = None \/ a.icoefs = None
        THEN Raise(uni, "Exception", s.steps, s.out)
        ELSE orb_ang_mom_body(uni, orb, a)

add_orb_ang_mom(uni, orb, a) ==
    IF a.rcoefs = None \/ a.icoefs = None
    THEN Raise(uni, "Exception", <<>>, <<>>)
    ELSE orb_ang_mom_body(uni, orb, a)

\* ------------------------------------------- algorithms/displacement.py
\* the labels of the atoms, the same in every frame of a trajectory
Labels == {1, 2}

\* group[['x', 'y', 'z']].values of the group of one label: the atom's
\* position in every frame, in the order of the rows of the atom table
group_xyz(atomtab, label) == [f \in 1..Len(atomtab) |-> atomtab[f][label]]

\* ((p - q)**2).sum()
squared_distance(p, q) ==
    (p[1] - q[1]) * (p[1] - q[1]) + (p[2] - q[2]) * (p[2] - q[2])
    + (p[3] - q[3]) * (p[3] - q[3])

\* msd[i] = ((xyz - xyz[0])**2).sum(axis=1)
squared_displacement(xyz) == [f \in 1..Len(xyz) |-> squared_distance(xyz[f], xyz[1])]

\* absolute_squared_displacement(universe, ref_frame).  The result is the
\* frame by label table df = DataFrame.from_records(msd).T.  ref_frame only
\* selects the rows the column names are read from; given a ref_frame, the
\* frame column is compared with the tuple np.where returns, and selection
\* is what pandas makes of that comparison: the rows of one frame, or a
\* ValueError from the comparison or from a list of names of the wrong length
absolute_squared_displacement(atomtab, ref_frame, selection) ==
    LET msd == [label \in Labels |-> squared_displacement(group_xyz(atomtab, label))]
        df == [f \in 1..Len(atomtab) |-> [label \in Labels |-> msd[label][f]]]
    IN  IF ref_frame # NoFrame /\ selection # "ok"
        THEN [status |-> "raised", error |-> selection, df |-> <<>>]
        ELSE [status |-> "returned", error |-> None, df |-> df]

\* ---------------------------------------------------------------- inputs
\* the positions an atom may take and the trajectories of NumFrames frames
Positions == {<<0, 0, 0>>, <<1, 0, 0>>, <<1, 2, 0>>}
Trajectories == [1..NumFrames -> [Labels -> Positions]]
NoAtom == <<>>
RefFrameArgs == {NoFrame} \cup 0..(NumFrames - 1)
\* explicit field parameters a caller may pass
UserFieldParams == [ox |-> 1, oy |-> 0, oz |-> 1, nx |-> 2, dx |-> 1, frame |-> 0]

FieldParamArgs == {NoFieldParams, UserFieldParams}
MoCoefArgs == {None, "bogus"}
VectorArgs == {NoVector, <<1>>}
NormArgs == {None, "Nd"}
FrameArgs == {NoFrame, 0, 1}

\* what the compiled path and the numpy path do on an input; the numpy path
\* is only consulted when the compiled one raised an error the except clause
\* names
EnvOk == [fast |-> "ok", slow |-> "ok"]

Envs ==
    {[fast |-> f, slow |-> "ok"] : f \in {"ok", "TypeError"} \cup Recoverable}
    \cup {[fast |-> f, slow |-> "ValueError"] : f \in Recoverable}

AttachEnvs ==
    {EnvOk, [fast |-> "TypeError", slow |-> "ok"], [fast |-> "IndexError", slow |-> "ValueError"]}

NoEnv == [fast |-> None, slow |-> None]

NoArgs ==
    [l |-> 0, field_params |-> NoFieldParams, mocoefs |-> None, vector |-> NoVector,
     orbocc |-> None, inplace |-> FALSE, replace |-> FALSE, verbose |-> FALSE,
     norm |-> None, rcoefs |-> None, icoefs |-> None, maxes |-> None,
     frame |-> NoFrame, field |-> NoField, ref_frame |-> NoFrame]

NoCall ==
    [op |-> None, args |-> NoArgs, env |-> NoEnv, status |-> None, error |-> None,
     before |-> NoField, traits_before |-> FALSE, ret |-> NoField, field |-> NoField,
     exps |-> <<>>, df |-> <<>>, steps |-> <<>>, out |-> <<>>]

uni == [_field |-> _field, _traits_need_update |-> _traits_need_update]

\* the universe's field holds at most MaxFieldValues value arrays
Fits(u) == Len(u._field.field_values) <= MaxFieldValues

\* the call is served: the universe and the record of the call afterwards
\* (before and traits_before are the field and the flag the universe held
\* when the call began)
Serve(op, a, env, r) ==
    /\ Fits(r.uni)
    /\ _field' = r.uni._field
    /\ _traits_need_update' = r.uni._traits_need_update
    /\ call' = [op |-> op, args |-> a, env |-> env, status |-> r.status,
                error |-> r.error, before |-> _field,
                traits_before |-> _traits_need_update, ret |-> r.ret, field |-> r.field,
                exps |-> <<>>, df |-> <<>>, steps |-> r.steps, out |-> r.out]
    /\ UNCHANGED <<orbital, atom>>

\* --------------------------------------------------------------- actions
\* Universe.__init__ without a field: no field attached, traits up to date
Init ==
    /\ orbital \in {[occupation |-> occ, lreal |-> <<1, 0>>] : occ \in OccupationColumns}
    /\ _field = NoField
    /\ _traits_need_update = FALSE
    /\ call = NoCall
    /\ atom = NoAtom

\* a universe of the atomic package holding a trajectory
InitDisp ==
    /\ orbital = [occupation |-> <<0, 0>>, lreal |-> <<1, 0>>]
    /\ _field = NoField
    /\ _traits_need_update = FALSE
    /\ call = NoCall
    /\ atom \in Trajectories

\* the results of cartesian_gtf_exponents for every l up to MaxL, computed once
GtfResults == [l \in 0..MaxL |-> cartesian_gtf_exponents(l)]

CartesianGtfExponents ==
    \E l \in 0..MaxL :
        LET r == GtfResults[l]
        IN  /\ call' = [NoCall EXCEPT !.op = "cartesian_gtf_exponents",
                                      !.args.l = l,
                                      !.status = IF r.err = None THEN "returned" ELSE "raised",
                                      !.error = r.err,
                                      !.exps = r.values]
            /\ UNCHANGED <<orbital, _field, _traits_need_update, atom>>

\* a call of add_molecular_orbitals with its arguments drawn from the given
\* sets; the paths' behaviour is only drawn where the setup lets them run
AddMolecularOrbitals(fps, vecs, verboses, envs) ==
    \E fp \in fps, mo \in MoCoefArgs, vec \in vecs,
       inplace \in BOOLEAN, replace \in BOOLEAN, verbose \in verboses, env \in envs :
        LET a == [NoArgs EXCEPT !.field_params = fp, !.mocoefs = mo, !.vector = vec,
                                !.inplace = inplace, !.replace = replace,
                                !.verbose = verbose]
        IN  /\ mo # None => env = EnvOk
            /\ Serve("add_molecular_orbitals", a, env, add_molecular_orbitals(uni, a, env))

AddDensity(fps, norms, verboses, envs) ==
    \E fp \in fps, mo \in MoCoefArgs, norm \in norms,
       inplace \in BOOLEAN, verbose \in verboses, env \in envs :
        LET a == [NoArgs EXCEPT !.field_params = fp, !.mocoefs = mo, !.norm = norm,
                                !.inplace = inplace, !.verbose = verbose]
        IN  /\ mo # None => env = EnvOk
            /\ Serve("add_density", a, env, add_density(uni, orbital, a, env))

AddOrbAngMom(fps, maxes, verboses) ==
    \E fp \in fps, rc \in {None, "lreal"}, ic \in {None, "limag"},
       mx \in maxes, inplace \in BOOLEAN, verbose \in verboses :
        LET a == [NoArgs EXCEPT !.field_params = fp, !.rcoefs = rc, !.icoefs = ic,
                                !.maxes = mx, !.norm = "Nd", !.inplace = inplace,
                                !.verbose = verbose]
        IN  /\ a.norm = "Nd"
            /\ Serve("add_orb_ang_mom", a, NoEnv, add_orb_ang_mom(uni, orbital, a))

EvalOps == {"add_molecular_orbitals", "add_density", "add_orb_ang_mom"}

\* the caller attaches the field the last call returned
AppendField ==
    /\ call.op \in EvalOps
    /\ call.status = "returned"
    /\ call.ret # NoField
    /\ \E frame \in FrameArgs :
        LET r == append_field(uni, call.ret, frame)
            a == [NoArgs EXCEPT !.frame = frame, !.field = call.ret]
        IN  Serve("append_field", a, NoEnv,
                  IF r.error # None
                  THEN [Raise(r.uni, r.error, <<>>, <<>>) EXCEPT !.field = r.field]
                  ELSE Return(r.uni, NoField, r.field, <<>>, <<>>))

AbsoluteSquaredDisplacement ==
    \E ref_frame \in RefFrameArgs, selection \in {"ok", "ValueError"} :
        LET r == absolute_squared_displacement(atom, ref_frame, selection)
        IN  /\ ref_frame = NoFrame => selection = "ok"
            /\ call' = [NoCall EXCEPT !.op = "absolute_squared_displacement",
                                      !.args.ref_frame = ref_frame,
                                      !.status = r.status,
                                      !.error = r.error,
                                      !.df = r.df]
            /\ UNCHANGED <<orbital, _field, _traits_need_update, atom>>

\* the evaluation functions on the default grid and vector, with every
\* behaviour of the two paths, every verbosity and every normalization mode
Next ==
    \/ CartesianGtfExponents
    \/ AddMolecularOrbitals({NoFieldParams}, {NoVector}, BOOLEAN, Envs)
    \/ AddDensity({NoFieldParams}, NormArgs, BOOLEAN, Envs)
    \/ AddOrbAngMom({NoFieldParams}, {None, "eye"}, BOOLEAN)

Spec == Init /\ [][Next]_vars

\* the attachment of fields: every grid and vector, quiet calls, and the
\* caller's own append_field
NextAttach ==
    \/ AddMolecularOrbitals(FieldParamArgs, VectorArgs, {FALSE}, AttachEnvs)
    \/ AddDensity({NoFieldParams}, {"Nd"}, {FALSE}, AttachEnvs)
    \/ AddOrbAngMom({NoFieldParams}, {None}, {FALSE})
    \/ AppendField

SpecAttach == Init /\ [][NextAttach]_vars

\* the squared displacements of every trajectory
NextDisp == AbsoluteSquaredDisplacement

SpecDisp == InitDisp /\ [][NextDisp]_vars

\* ---------------------------------------------------------------- claims
\* the last call was an evaluation whose setup found its columns
Evaluated(ops) == call.op \in ops /\ call.args.mocoefs = None

\* the compiled path failed with an error the except clause names
FellBack == call.env.fast \in Recoverable

\* the orbital values the numpy path yields for the last call
FallbackValues(vector) ==
    LET s == _setup_orbital(FALSE, call.args.vector, call.args.field_params, None, None)
    IN  _compute_orbitals_nojit(Len(s.xyz), s.bvs, vector, s.icoefs, "ok").ovs

\* the occupation-weighted sum of their squares over the occupied orbitals
RawDensity ==
    LET s == _setup_orbital(FALSE, NoVector, call.args.field_params, None, None)
        vector == nonzero_orbitals(orbital.occupation)
        occ == [i \in 1..Len(vector) |-> orbital.occupation[vector[i]]]
    IN  _compute_density(Len(s.xyz), FallbackValues(vector), occ)

\* all triples of non-negative integers that sum to l
Triples(l) == {t \in (0..l) \X (0..l) \X (0..l) : t[1] + t[2] + t[3] = l}

\* C1: cartesian_gtf_exponents(l) returns (l+1)(l+2)/2 rows, each a triple
\* of non-negative integers summing to l, no triple twice and no row left
\* unfilled: the rows are exactly the triples that sum to l.
C1_ExponentsComplete ==
    call.op = "cartesian_gtf_exponents" =>
        LET l == call.args.l
            v == call.exps
        IN  /\ call.status = "returned"
            /\ Len(v) = ((l + 1) * (l + 2)) \div 2
            /\ \A r \in 1..Len(v) :
                /\ v[r] # Unfilled
                /\ \A c \in 1..3 : v[r][c] >= 0
                /\ v[r][1] + v[r][2] + v[r][3] = l
            /\ \A r1, r2 \in 1..Len(v) : r1 # r2 => v[r1] # v[r2]
            /\ {v[r] : r \in 1..Len(v)} = Triples(l)

C1_Witness ==
    /\ call.op = "cartesian_gtf_exponents"
    /\ call.args.l = 2
    /\ Len(call.exps) = 6

\* C2: when the compiled path raises ValueError, IndexError or AssertionError
\* and the numpy fallback succeeds, add_molecular_orbitals and add_density
\* return without an error and the field holds the fallback's orbital values
\* (for the density, their occupation-weighted squares).
C2_FallbackRecovers ==
    (Evaluated({"add_molecular_orbitals", "add_density"}) /\ FellBack /\ call.env.slow = "ok") =>
        /\ call.status = "returned"
        /\ call.error = None
        /\ "_compute_orbitals_nojit" \in {call.steps[i] : i \in 1..Len(call.steps)}
        /\ call.op = "add_molecular_orbitals" =>
            call.field.field_values = FallbackValues(_determine_vector(call.args.vector))
        /\ call.op = "add_density" => call.field.field_values = <<RawDensity>>

C2_Witness ==
    /\ call.op = "add_density"
    /\ call.env.fast = "AssertionError"
    /\ call.env.slow = "ok"
    /\ call.status = "returned"
    /\ call.field.field_values # <<<<0, 0>>>>

\* C3 as stated: when the compiled path raises one of the three errors and
\* the fallback fails too, the error reaching the caller has the class of the
\* compiled path's error.
C3_OriginalClassPropagates ==
    (Evaluated({"add_molecular_orbitals", "add_density"}) /\ FellBack /\ call.env.slow # "ok") =>
        (call.status = "raised" /\ call.error = call.env.fast)

\* C3 amended: when the compiled path raises one of the three errors and the
\* fallback fails too, the error reaching the caller is the fallback's error.
C3_FallbackErrorPropagates ==
    (Evaluated({"add_molecular_orbitals", "add_density"}) /\ FellBack /\ call.env.slow # "ok") =>
        (call.status = "raised" /\ call.error = call.env.slow)

C3_Witness ==
    /\ call.op = "add_molecular_orbitals"
    /\ call.env.fast = "AssertionError"
    /\ call.env.slow = "ValueError"
    /\ call.status = "raised"
    /\ call.error = "ValueError"

C5_ReplaceDiscards ==
    (/\ Evaluated({"add_molecular_orbitals"})
     /\ call.args.inplace /\ call.args.replace
     /\ call.before # NoField
     /\ (call.env.fast = "ok" \/ (FellBack /\ call.env.slow = "ok"))) =>
        /\ call.status = "returned"
        /\ call.field # NoField
        /\ _field = call.field

C5_Witness ==
    /\ call.op = "add_molecular_orbitals"
    /\ call.args.inplace /\ call.args.replace
    /\ call.status = "returned"
    /\ call.before # NoField
    /\ call.before # call.field
    /\ _field = call.field

\* C6: an in-place attachment with replace=False appends: the value list is
\* the previous list followed by the new field's values and the table of
\* grid metadata is the previous rows followed by the new field's rows, one
\* row per value array, so every attached field keeps its own row.
C6_AppendConcatenates ==
    /\ Len(_field.rows) = Len(_field.field_values)
    /\ (call.op \in EvalOps /\ call.status = "returned"
            /\ call.args.inplace /\ ~call.args.replace) =>
        /\ _field.field_values = call.before.field_values \o call.field.field_values
        /\ _field.rows = call.before.rows \o call.field.rows

C6_Witness ==
    /\ call.op \in EvalOps /\ call.status = "returned"
    /\ call.args.inplace /\ ~call.args.replace
    /\ call.before # NoField
    /\ call.before.rows[1] # call.field.rows[1]
    /\ call.before.field_values[1] # call.field.field_values[1]
    /\ Len(_field.field_values) = Len(call.before.field_values) + Len(call.field.field_values)

\* C7: with inplace false each of the three evaluation functions returns the
\* field it computed and leaves the universe's field as it was, whatever
\* replace is and whether or not a field was attached.
C7_NotInplaceReturns ==
    (call.op \in EvalOps /\ call.status = "returned" /\ ~call.args.inplace) =>
        /\ call.ret = call.field
        /\ call.ret # NoField
        /\ _field = call.before

C7_Witness ==
    /\ call.op = "add_molecular_orbitals"
    /\ call.status = "returned"
    /\ ~call.args.inplace /\ call.args.replace
    /\ call.before # NoField
    /\ call.ret # NoField

\* C8 as stated: with verbose false an evaluation that does not raise prints
\* nothing, the fallback included.
C8_QuietWhenNotVerbose ==
    (call.op \in EvalOps /\ call.status = "returned" /\ ~call.args.verbose) =>
        call.out = <<>>

\* the sum of a density over the grid times the volume element
GridIntegral(dens, row) == SumSeq(dens) * VolumeElement(row)

\* C9 as stated: with norm given add_density scales the density so that its
\* sum over the grid times the volume element is the electron count, and
\* without it the raw occupation-weighted sum of squares is returned.
C9_NormalizationHonoured ==
    (Evaluated({"add_density"}) /\ call.status = "returned") =>
        LET dens == call.field.field_values[1]
        IN  IF call.args.norm # None
            THEN GridIntegral(dens, call.field.rows[1]) = SumSeq(orbital.occupation)
            ELSE dens = RawDensity

\* C10: with every occupation zero add_density, its columns found and its
\* orbital computation (compiled, or the fallback after a recoverable error)
\* succeeding, returns a density that is zero at every grid point.
C10_ZeroOccupationZeroDensity ==
    (/\ Evaluated({"add_density"})
     /\ \A o \in Orbs : orbital.occupation[o] = 0
     /\ (call.env.fast = "ok" \/ (FellBack /\ call.env.slow = "ok"))) =>
        /\ call.status = "returned"
        /\ Len(call.field.field_values) = 1
        /\ Len(call.field.field_values[1]) = call.field.rows[1].nx
        /\ \A p \in 1..Len(call.field.field_values[1]) : call.field.field_values[1][p] = 0

C10_Witness ==
    /\ call.op = "add_density"
    /\ orbital.occupation = <<0, 0>>
    /\ call.status = "returned"
    /\ call.field.field_values = <<<<0, 0>>>>

\* C11: every append_field that succeeds, the one that finds no field attached
\* and the one that concatenates alike, leaves the universe's
\* _traits_need_update set.
C11_AttachMarksTraits ==
    (call.op = "append_field" /\ call.status = "returned") =>
        _traits_need_update = TRUE

C11_Witness ==
    /\ call.op = "append_field"
    /\ call.status = "returned"
    /\ call.before = NoField
    /\ ~call.traits_before
    /\ _field # NoField
    /\ _traits_need_update

\* C14: append_field with an integer frame that is not in the universe's
\* frame index raises IndexError and changes nothing: the attached field and
\* _traits_need_update are as before the call and the field passed in has not
\* been given that frame.
C14_UnknownFrameAborts ==
    (call.op = "append_field" /\ call.args.frame # NoFrame /\ call.args.frame \notin Frames) =>
        /\ call.status = "raised"
        /\ call.error = "IndexError"
        /\ _field = call.before
        /\ _traits_need_update = call.traits_before
        /\ call.field = call.args.field

C14_Witness ==
    /\ call.op = "append_field"
    /\ call.args.frame = 1
    /\ call.status = "raised"
    /\ call.error = "IndexError"
    /\ call.args.field.rows[1].frame = 0
    /\ call.field.rows[1].frame = 0
    /\ call.before # NoField
    /\ _field = call.before

\* C12 as stated: absolute_squared_displacement gives, for every atom and
\* frame, the squared distance of the atom from its own position in the frame
\* ref_frame names (the first frame when it is omitted), so that every atom's
\* value at the reference frame is 0.
C12_RelativeToRefFrame ==
    (call.op = "absolute_squared_displacement" /\ call.status = "returned") =>
        LET ref == IF call.args.ref_frame = NoFrame THEN 0 ELSE call.args.ref_frame
        IN  \A label \in Labels :
                /\ call.df[ref + 1][label] = 0
                /\ \A f \in 1..Len(atom) :
                       call.df[f][label] = squared_distance(atom[f][label], atom[ref + 1][label])

\* the calls of the compiled and of the numpy orbital evaluation, in the
\* order the last call made them
ComputeSteps ==
    SelectSeq(call.steps, LAMBDA s : s \in {"_compute_orbitals", "_compute_orbitals_nojit"})

\* C13: one call of add_molecular_orbitals or add_density tries the compiled
\* evaluation first and exactly once, and runs the numpy fallback at most
\* once, after it, exactly when the compiled evaluation raised ValueError,
\* IndexError or AssertionError; the fallback is never repeated and never run
\* after a compiled evaluation that succeeded or raised another class.
C13_FastOnceFallbackOnce ==
    (call.op \in {"add_molecular_orbitals", "add_density"}) =>
        /\ ComputeSteps \in {<<>>, <<"_compute_orbitals">>,
                              <<"_compute_orbitals", "_compute_orbitals_nojit">>}
        /\ Evaluated({"add_molecular_orbitals", "add_density"}) => ComputeSteps # <<>>
        /\ Len(ComputeSteps) = 2 <=>
               (Evaluated({"add_molecular_orbitals", "add_density"}) /\ FellBack)

C13_Witness ==
    /\ call.op = "add_density"
    /\ call.env = [fast |-> "IndexError", slow |-> "ValueError"]
    /\ call.status = "raised"
    /\ ComputeSteps = <<"_compute_orbitals", "_compute_orbitals_nojit">>

\* C16: add_molecular_orbitals with inplace and replace true on a universe
\* that holds a field, when the evaluation fails (in the setup, in both
\* paths, or in the compiled path with a class the except clause does not
\* name), leaves the field that was attached in place and unchanged.
C16_FailedReplaceKeepsField ==
    (/\ call.op = "add_molecular_orbitals"
     /\ call.args.inplace /\ call.args.replace
     /\ call.status = "raised") =>
        /\ _field = call.before
        /\ _traits_need_update = call.traits_before

C16_Witness ==
    /\ call.op = "add_molecular_orbitals"
    /\ call.args.inplace /\ call.args.replace
    /\ call.status = "raised"
    /\ call.env = [fast |-> "IndexError", slow |-> "ValueError"]
    /\ call.before # NoField
    /\ _field = call.before

\* (i1, j1) before (i2, j2) in the lexicographic order
LexBefore(t1, t2) == t1[1] < t2[1] \/ (t1[1] = t2[1] /\ t1[2] < t2[2])

\* C15: the rows cartesian_gtf_exponents(l) returns are in ascending i, then
\* ascending j (k being what is left of l): every row comes lexicographically
\* on (i, j) before each later row, for every l.
C15_RowsLexicographic ==
    (call.op = "cartesian_gtf_exponents" /\ call.status = "returned") =>
        /\ \A r \in 1..Len(call.exps) :
               call.exps[r][3] = call.args.l - call.exps[r][1] - call.exps[r][2]
        /\ \A r1, r2 \in 1..Len(call.exps) :
               r1 < r2 => LexBefore(call.exps[r1], call.exps[r2])

C15_Witness ==
    /\ call.op = "cartesian_gtf_exponents"
    /\ call.status = "returned"
    /\ call.args.l = 2
    /\ call.exps = <<<<0, 0, 2>>, <<0, 1, 1>>, <<0, 2, 0>>, <<1, 0, 1>>, <<1, 1, 0>>, <<2, 0, 0>>>>

====
